---- MODULE Spec2Model ----
(***************************************************************************)
(* Model of the student registry contract of src/lib.rs: a mapping from    *)
(* u32 ids to Student records and the next_id counter, with the messages   *)
(* create_student, get_all_students, get_student, update_student and       *)
(* delete_student.  Texts are sequences of one-character strings, an       *)
(* Option<T> is a sequence of length at most one.                          *)
(***************************************************************************)
EXTENDS Integers, Sequences, FiniteSets, TLC

\* ---------------------------------------------------------------- bounds
\* u32::MAX, scaled down so that the counter can reach it.
U32_MAX == 3
\* Number of messages sent to the contract in one run.
MaxCalls == 4

\* ------------------------------------------------------ program constants
MaxNameLen == 100
MinDay == 1
MaxDay == 31
MinMonth == 1
MaxMonth == 12
MinYear == 1900
MaxYear == 2100
MinCr == 0
MaxCr == 100
BirthDateLen == 10
FirstId == 1

\* ----------------------------------------------------------------- Option
None == << >>
Some(x) == << x >>
IsSome(o) == Len(o) = 1
Unwrap(o) == o[1]

\* ------------------------------------------------------------------ texts
Digits == {"0", "1", "2", "3", "4", "5", "6", "7", "8", "9"}
Whitespace == {" ", "\t", "\n"}

DigitVal(c) ==
    CASE c = "0" -> 0 [] c = "1" -> 1 [] c = "2" -> 2 [] c = "3" -> 3
      [] c = "4" -> 4 [] c = "5" -> 5 [] c = "6" -> 6 [] c = "7" -> 7
      [] c = "8" -> 8 [] c = "9" -> 9

\* The text made of n copies of the character c.
Rep(c, n) == [i \in 1..n |-> c]

\* str::trim().is_empty(): the text has no character that is not whitespace.
TrimIsEmpty(s) == \A i \in 1..Len(s) : s[i] \in Whitespace

\* str::split('/'): the list of the parts between the slashes (a text
\* without slash is one part, n slashes give n + 1 parts, parts may be
\* empty).
RECURSIVE SplitFrom(_, _, _)
SplitFrom(s, i, cur) ==
    IF i > Len(s) THEN << cur >>
    ELSE IF s[i] = "/" THEN << cur >> \o SplitFrom(s, i + 1, << >>)
    ELSE SplitFrom(s, i + 1, Append(cur, s[i]))

Split(s) == SplitFrom(s, 1, << >>)

\* str::parse::<u32>() on a text over digits and '/': None for the empty
\* text or a text with a non-digit, Some(value) otherwise.  The texts that
\* reach it have at most BirthDateLen characters, so the value is below
\* 10^10 digits' worth only when fewer than 10 digits: it fits u32.
RECURSIVE ParseFrom(_, _, _)
ParseFrom(s, i, acc) ==
    IF i > Len(s) THEN acc
    ELSE ParseFrom(s, i + 1, acc * 10 + DigitVal(s[i]))

ParseU32(s) ==
    IF Len(s) = 0 \/ \E i \in 1..Len(s) : s[i] \notin Digits THEN None
    ELSE Some(ParseFrom(s, 1, 0))

\* validate_birth_date: "ok" when the function returns, the panic otherwise.
validate_birth_date(birth_date) ==
    IF (\E i \in 1..Len(birth_date) :
            birth_date[i] \notin Digits /\ birth_date[i] # "/")
       \/ Len(birth_date) # BirthDateLen
    THEN "date_format"
    ELSE LET parts == Split(birth_date) IN
    IF Len(parts) # 3 THEN "date_format"
    ELSE LET day == ParseU32(parts[1])
             month == ParseU32(parts[2])
             year == ParseU32(parts[3]) IN
    IF ~IsSome(day) THEN "day_parse"
    ELSE IF ~IsSome(month) THEN "month_parse"
    ELSE IF ~IsSome(year) THEN "year_parse"
    ELSE IF ~(Unwrap(day) >= MinDay /\ Unwrap(day) <= MaxDay) THEN "day_range"
    ELSE IF ~(Unwrap(month) >= MinMonth /\ Unwrap(month) <= MaxMonth)
         THEN "month_range"
    ELSE IF Unwrap(year) < MinYear \/ Unwrap(year) > MaxYear THEN "year_range"
    ELSE "ok"

\* Mutant of validate_name: the length limit is exclusive.
validate_name_Exclusive(name) ==
    IF TrimIsEmpty(name) THEN "name_empty"
    ELSE IF Len(name) >= MaxNameLen THEN "name_long"
    ELSE "ok"

\* The name checks shared by create_student and update_student.
validate_name(name) ==
    IF TrimIsEmpty(name) THEN "name_empty"
    ELSE IF Len(name) > MaxNameLen THEN "name_long"
    ELSE "ok"

\* The cr check shared by create_student and update_student.
validate_cr(cr) ==
    IF ~(cr >= MinCr /\ cr <= MaxCr) THEN "cr_range" ELSE "ok"

\* ------------------------------------------------------------ input sets
Status == {"Active", "Inactive", "Graduated", "Suspended"}

NameA == << "A" >>
NameB == << "B", "o" >>
NameBlank == << " " >>
NameLong == Rep("a", MaxNameLen + 1)
CreateNames == {NameA, NameBlank, NameLong}
UpdateNames == {NameB, NameBlank}

Date1 == << "0", "1", "/", "0", "1", "/", "2", "0", "0", "0" >>
Date2 == << "2", "9", "/", "0", "2", "/", "2", "0", "0", "0" >>
DateBadMonth == << "3", "1", "/", "1", "3", "/", "2", "0", "0", "0" >>
\* The birth dates of the crud_works test.
Date99 == << "9", "9", "/", "9", "9", "/", "9", "9", "9", "9" >>
Date00 == << "0", "0", "/", "0", "0", "/", "0", "0", "0", "0" >>
CreateDates == {Date1, Date99}
UpdateDates == {Date2, Date00}

CreateCrs == {0, 101}
UpdateCrs == {100, 101}
CreateStatuses == {"Active"}
UpdateStatuses == {"Inactive"}

OptionOf(S) == {None} \cup {Some(x) : x \in S}

U32 == 0..U32_MAX

\* The ids the messages are called with: those create_student can issue and
\* U32_MAX, which it never issues.
IdInputs == FirstId..U32_MAX

\* ------------------------------------------------------------------ state
VARIABLES
    students,   \* Mapping<u32, Student>: id -> Option<Student>
    next_id,    \* the id the next create_student allocates
    unwinding,  \* TRUE: std build, a panic unwinds and the contract value
                \* stays as it is; FALSE: on-chain build, a panicking
                \* message is reverted by the host
    reply,      \* the message just handled, with its arguments and outcome,
                \* until the caller takes it; NoReply when none is pending
    issued,     \* the ids returned by create_student so far, in order
    deleted,    \* the ids removed by delete_student so far
    calls       \* number of messages handled

vars == << students, next_id, unwinding, reply, issued, deleted, calls >>

\* Mutant of Student: the id field is taken from the counter after its step.
Student_SteppedId(id, name, birth_date, cr, status) ==
    [id |-> id + 1, name |-> name, birth_date |-> birth_date, cr |-> cr,
     status |-> status]

\* Mutant of Student: the cr argument is not stored.
Student_DropCr(id, name, birth_date, cr, status) ==
    [id |-> id, name |-> name, birth_date |-> birth_date, cr |-> None,
     status |-> status]

Student(id, name, birth_date, cr, status) ==
    [id |-> id, name |-> name, birth_date |-> birth_date, cr |-> cr,
     status |-> status]

NoReply ==
    [op |-> "none", id |-> 0, name |-> None, birth_date |-> None, cr |-> None,
     status |-> None, err |-> "none", ret |-> None]

\* StudentContract::new
Init ==
    /\ students = [k \in U32 |-> None]
    /\ next_id = FirstId
    /\ unwinding \in BOOLEAN
    /\ reply = NoReply
    /\ issued = << >>
    /\ deleted = {}
    /\ calls = 0

\* Mapping::get
get_student(id) == students[id]

\* Mutant of CollectFrom: the range stops one id early.
RECURSIVE CollectFrom_Short(_, _, _)
CollectFrom_Short(m, id, end) ==
    IF id + 1 >= end THEN << >>
    ELSE m[id] \o CollectFrom_Short(m, id + 1, end)

\* (1..self.next_id).filter_map(|id| self.students.get(&id)).collect()
RECURSIVE CollectFrom(_, _, _)
CollectFrom(m, id, end) ==
    IF id >= end THEN << >>
    ELSE m[id] \o CollectFrom(m, id + 1, end)

get_all_students == CollectFrom(students, FirstId, next_id)

\* Mutant of CreateError: the cr check comes before the birth_date check.
CreateError_CrFirst(name, birth_date, cr) ==
    IF validate_name(name) # "ok" THEN validate_name(name)
    ELSE IF IsSome(cr) /\ validate_cr(Unwrap(cr)) # "ok"
         THEN validate_cr(Unwrap(cr))
    ELSE IF validate_birth_date(birth_date) # "ok"
         THEN validate_birth_date(birth_date)
    ELSE "ok"

\* The first failing check of create_student after the counter step.
CreateError(name, birth_date, cr) ==
    IF validate_name(name) # "ok" THEN validate_name(name)
    ELSE IF validate_birth_date(birth_date) # "ok"
         THEN validate_birth_date(birth_date)
    ELSE IF IsSome(cr) /\ validate_cr(Unwrap(cr)) # "ok"
         THEN validate_cr(Unwrap(cr))
    ELSE "ok"

\* Mutant of AllocId: the lowest free id is taken instead of the counter.
AllocId_Reuse ==
    IF \E k \in FirstId..U32_MAX : students[k] = None
    THEN CHOOSE k \in FirstId..U32_MAX :
             /\ students[k] = None
             /\ \A j \in FirstId..(k - 1) : students[j] # None
    ELSE next_id

\* let id = self.next_id
AllocId == next_id

\* Mutant of CheckedAdd1: the overflow is detected but the step is lost.
CheckedAdd1_NoStep(n) == IF n + 1 > U32_MAX THEN None ELSE Some(n)

\* Mutant of CheckedAdd1: wrapping_add in place of checked_add.
CheckedAdd1_Wrap(n) == Some((n + 1) % (U32_MAX + 1))

\* self.next_id.checked_add(1)
CheckedAdd1(n) == IF n + 1 > U32_MAX THEN None ELSE Some(n + 1)

\* The counter after a create_student that panics once next_id is assigned:
\* the assignment stays in the unwinding build and is reverted on chain.
NextIdAfterPanic(bumped) == IF unwinding THEN bumped ELSE next_id

create_student(name, birth_date, cr, status) ==
    LET id == AllocId
        sum == CheckedAdd1(next_id)
        call == [op |-> "create", id |-> id, name |-> Some(name),
                 birth_date |-> Some(birth_date), cr |-> cr,
                 status |-> status]
    IN
    /\ calls < MaxCalls
    /\ reply = NoReply
    /\ calls' = calls + 1
    /\ UNCHANGED << unwinding, deleted >>
    /\ IF ~IsSome(sum)
       THEN /\ reply' = call @@ [err |-> "overflow", ret |-> None]
            /\ UNCHANGED << students, next_id, issued >>
       ELSE IF CreateError(name, birth_date, cr) # "ok"
       THEN /\ reply' = call @@ [err |-> CreateError(name, birth_date, cr),
                                ret |-> None]
            /\ next_id' = NextIdAfterPanic(Unwrap(sum))
            /\ UNCHANGED << students, issued >>
       ELSE /\ next_id' = Unwrap(sum)
            /\ students' = [students EXCEPT
                   ![id] = Some(Student(id, name, birth_date, cr, status))]
            /\ issued' = Append(issued, id)
            /\ reply' = call @@ [err |-> "none", ret |-> Some(id)]

CreateStudent ==
    \E name \in CreateNames, birth_date \in CreateDates,
       cr \in OptionOf(CreateCrs), status \in {Some(x) : x \in CreateStatuses} :
        create_student(name, birth_date, cr, status)

\* Mutant of UpdateError: update_student lacks the range check of cr.
UpdateError_NoCrCheck(name, birth_date, cr) ==
    IF IsSome(name) /\ validate_name(Unwrap(name)) # "ok"
    THEN validate_name(Unwrap(name))
    ELSE IF IsSome(birth_date) /\ validate_birth_date(Unwrap(birth_date)) # "ok"
         THEN validate_birth_date(Unwrap(birth_date))
    ELSE "ok"

\* The result of update_student on a stored record: the first failing check
\* in the order name, birth_date, cr, or "ok".
UpdateError(name, birth_date, cr) ==
    IF IsSome(name) /\ validate_name(Unwrap(name)) # "ok"
    THEN validate_name(Unwrap(name))
    ELSE IF IsSome(birth_date) /\ validate_birth_date(Unwrap(birth_date)) # "ok"
         THEN validate_birth_date(Unwrap(birth_date))
    ELSE IF IsSome(cr) /\ validate_cr(Unwrap(cr)) # "ok"
         THEN validate_cr(Unwrap(cr))
    ELSE "ok"

\* Mutant of ApplyUpdate: cr is assigned from the argument as it is, so an
\* absent argument clears the stored cr.
ApplyUpdate_CrOverwrite(student, name, birth_date, cr, status) ==
    [id |-> student.id,
     name |-> IF IsSome(name) THEN Unwrap(name) ELSE student.name,
     birth_date |-> IF IsSome(birth_date) THEN Unwrap(birth_date)
                    ELSE student.birth_date,
     cr |-> cr,
     status |-> IF IsSome(status) THEN Unwrap(status) ELSE student.status]

\* Mutant of ApplyUpdate: the two layers of the status argument are
\* flattened, so Some(None) is taken for "no change".
ApplyUpdate_StatusFlatten(student, name, birth_date, cr, status) ==
    [id |-> student.id,
     name |-> IF IsSome(name) THEN Unwrap(name) ELSE student.name,
     birth_date |-> IF IsSome(birth_date) THEN Unwrap(birth_date)
                    ELSE student.birth_date,
     cr |-> IF IsSome(cr) THEN Some(Unwrap(cr)) ELSE student.cr,
     status |-> IF IsSome(status) /\ IsSome(Unwrap(status))
                THEN Unwrap(status) ELSE student.status]

\* Mutant of ApplyUpdate: clearing the status clears the cr with it.
ApplyUpdate_ClearBoth(student, name, birth_date, cr, status) ==
    [id |-> student.id,
     name |-> IF IsSome(name) THEN Unwrap(name) ELSE student.name,
     birth_date |-> IF IsSome(birth_date) THEN Unwrap(birth_date)
                    ELSE student.birth_date,
     cr |-> IF IsSome(cr) THEN Some(Unwrap(cr))
            ELSE IF status = Some(None) THEN None ELSE student.cr,
     status |-> IF IsSome(status) THEN Unwrap(status) ELSE student.status]

\* The local copy `student` of update_student after the requested fields
\* are assigned.
ApplyUpdate(student, name, birth_date, cr, status) ==
    [id |-> student.id,
     name |-> IF IsSome(name) THEN Unwrap(name) ELSE student.name,
     birth_date |-> IF IsSome(birth_date) THEN Unwrap(birth_date)
                    ELSE student.birth_date,
     cr |-> IF IsSome(cr) THEN Some(Unwrap(cr)) ELSE student.cr,
     status |-> IF IsSome(status) THEN Unwrap(status) ELSE student.status]

\* Mutant of StoredAfterUpdate: the record is written back after each field,
\* so a name that passed its checks is stored although a later check fails.
StoredAfterUpdate_Partial(student, name, birth_date, cr, status) ==
    IF UpdateError(name, birth_date, cr) = "ok"
    THEN ApplyUpdate(student, name, birth_date, cr, status)
    ELSE IF IsSome(name) /\ validate_name(Unwrap(name)) = "ok"
    THEN ApplyUpdate(student, name, None, None, None)
    ELSE student

\* What update_student leaves stored under the id of a record it found: the
\* panic of a failing check comes before the insert, so the stored record
\* stays; otherwise the mutated copy is inserted.
StoredAfterUpdate(student, name, birth_date, cr, status) ==
    IF UpdateError(name, birth_date, cr) # "ok" THEN student
    ELSE ApplyUpdate(student, name, birth_date, cr, status)

\* Mutant of update_student: the requested fields are checked before the
\* record is looked up.
update_student_ValidateFirst(id, name, birth_date, cr, status) ==
    LET call == [op |-> "update", id |-> id, name |-> name,
                 birth_date |-> birth_date, cr |-> cr, status |-> status]
        found == students[id]
    IN
    /\ calls < MaxCalls
    /\ reply = NoReply
    /\ calls' = calls + 1
    /\ UNCHANGED << next_id, unwinding, issued, deleted >>
    /\ IF UpdateError(name, birth_date, cr) # "ok"
       THEN /\ reply' = call @@ [err |-> UpdateError(name, birth_date, cr),
                                 ret |-> None]
            /\ UNCHANGED students
       ELSE IF ~IsSome(found)
       THEN /\ reply' = call @@ [err |-> "none", ret |-> Some(FALSE)]
            /\ UNCHANGED students
       ELSE /\ students' = [students EXCEPT ![id] =
                   Some(StoredAfterUpdate(Unwrap(found), name, birth_date,
                                          cr, status))]
            /\ reply' = call @@ [err |-> "none", ret |-> Some(TRUE)]

\* Mutant of update_student: the result is true whether or not the record
\* exists.
update_student_TrueOnMissing(id, name, birth_date, cr, status) ==
    LET call == [op |-> "update", id |-> id, name |-> name,
                 birth_date |-> birth_date, cr |-> cr, status |-> status]
        found == students[id]
    IN
    /\ calls < MaxCalls
    /\ reply = NoReply
    /\ calls' = calls + 1
    /\ UNCHANGED << next_id, unwinding, issued, deleted >>
    /\ IF ~IsSome(found)
       THEN /\ reply' = call @@ [err |-> "none", ret |-> Some(TRUE)]
            /\ UNCHANGED students
       ELSE IF UpdateError(name, birth_date, cr) # "ok"
       THEN /\ reply' = call @@ [err |-> UpdateError(name, birth_date, cr),
                                 ret |-> None]
            /\ students' = [students EXCEPT ![id] =
                   Some(StoredAfterUpdate(Unwrap(found), name, birth_date,
                                          cr, status))]
       ELSE /\ students' = [students EXCEPT ![id] =
                   Some(StoredAfterUpdate(Unwrap(found), name, birth_date,
                                          cr, status))]
            /\ reply' = call @@ [err |-> "none", ret |-> Some(TRUE)]

update_student(id, name, birth_date, cr, status) ==
    LET call == [op |-> "update", id |-> id, name |-> name,
                 birth_date |-> birth_date, cr |-> cr, status |-> status]
        found == students[id]
    IN
    /\ calls < MaxCalls
    /\ reply = NoReply
    /\ calls' = calls + 1
    /\ UNCHANGED << next_id, unwinding, issued, deleted >>
    /\ IF ~IsSome(found)
       THEN /\ reply' = call @@ [err |-> "none", ret |-> Some(FALSE)]
            /\ UNCHANGED students
       ELSE IF UpdateError(name, birth_date, cr) # "ok"
       THEN /\ reply' = call @@ [err |-> UpdateError(name, birth_date, cr),
                                 ret |-> None]
            /\ students' = [students EXCEPT ![id] =
                   Some(StoredAfterUpdate(Unwrap(found), name, birth_date,
                                          cr, status))]
       ELSE /\ students' = [students EXCEPT ![id] =
                   Some(StoredAfterUpdate(Unwrap(found), name, birth_date,
                                          cr, status))]
            /\ reply' = call @@ [err |-> "none", ret |-> Some(TRUE)]

UpdateStudent ==
    \E id \in IdInputs, name \in OptionOf(UpdateNames),
       birth_date \in OptionOf(UpdateDates), cr \in OptionOf(UpdateCrs),
       status \in OptionOf(OptionOf(UpdateStatuses)) :
        update_student(id, name, birth_date, cr, status)

\* Mutant of Removed: the entry is left in the mapping.
Removed_Keep(m, id) == m

\* Mapping::remove
Removed(m, id) == [m EXCEPT ![id] = None]

delete_student(id) ==
    LET call == [op |-> "delete", id |-> id, name |-> None,
                 birth_date |-> None, cr |-> None, status |-> None]
    IN
    /\ calls < MaxCalls
    /\ reply = NoReply
    /\ calls' = calls + 1
    /\ UNCHANGED << next_id, unwinding, issued >>
    /\ IF IsSome(students[id])
       THEN /\ students' = Removed(students, id)
            /\ deleted' = deleted \cup {id}
            /\ reply' = call @@ [err |-> "none", ret |-> Some(TRUE)]
       ELSE /\ UNCHANGED << students, deleted >>
            /\ reply' = call @@ [err |-> "none", ret |-> Some(FALSE)]

DeleteStudent == \E id \in IdInputs : delete_student(id)

\* The read-only messages: the state stays, the result is recorded.
GetStudent ==
    \E id \in IdInputs :
        /\ calls < MaxCalls
        /\ reply = NoReply
    /\ reply = NoReply
        /\ calls' = calls + 1
        /\ reply' = [op |-> "get", id |-> id, name |-> None,
                    birth_date |-> None, cr |-> None, status |-> None,
                    err |-> "none", ret |-> Some(get_student(id))]
        /\ UNCHANGED << students, next_id, unwinding, issued, deleted >>

GetAllStudents ==
    /\ calls < MaxCalls
    /\ reply = NoReply
    /\ calls' = calls + 1
    /\ reply' = [op |-> "get_all", id |-> 0, name |-> None,
                birth_date |-> None, cr |-> None, status |-> None,
                err |-> "none", ret |-> Some(get_all_students)]
    /\ UNCHANGED << students, next_id, unwinding, issued, deleted >>

\* The caller takes the reply; the contract is ready for the next message.
Return ==
    /\ reply # NoReply
    /\ reply' = NoReply
    /\ UNCHANGED << students, next_id, unwinding, issued, deleted, calls >>

Next ==
    \/ CreateStudent
    \/ UpdateStudent
    \/ DeleteStudent
    \/ GetStudent
    \/ GetAllStudents
    \/ Return

Spec == Init /\ [][Next]_vars

\* ------------------------------------------- the checks on their own inputs
\* The parts a birth date text is put together from: day, month and year
\* texts at and around the limits, with fewer and more digits than dd, mm
\* and yyyy have.
DateParts ==
    { << >>, << "1" >>, << "0", "1" >>, << "0", "0" >>, << "1", "2" >>,
      << "1", "3" >>, << "3", "1" >>, << "3", "2" >>, << "9", "9" >>,
      << "0", "0", "1" >>, << "1", "8", "9", "9" >>, << "1", "9", "0", "0" >>,
      << "2", "0", "0", "0" >>, << "2", "1", "0", "0" >>,
      << "2", "1", "0", "1" >>, << "9", "9", "9", "9" >>,
      << "0", "0", "0", "0" >>, << "0", "1", "9", "0", "0" >>,
      << "0", "0", "1", "9", "0", "0" >> }

Slash == << "/" >>

\* Texts without the two slashes of a date, with more of them, or with
\* other characters.
OtherTexts ==
    { << >>,
      << "0", "1", "0", "1", "2", "0", "0", "0", "0", "0" >>,
      << "0", "1", "0", "1", "/", "2", "0", "0", "0", "0" >>,
      << "1", "/", "1", "/", "1", "/", "1", "9", "0", "0" >>,
      << "/", "/", "/", "/", "/", "/", "/", "/", "/", "/" >>,
      << "0", "1", "-", "0", "1", "-", "2", "0", "0", "0" >>,
      << "a", "b", "/", "c", "d", "/", "e", "f", "g", "h" >>,
      << " ", "1", "/", "0", "1", "/", "2", "0", "0", "0" >>,
      << "0", "1", "/", "0", "1", "/", "2", "0", "0", "0", "0" >> }

DateTexts ==
    { d \o Slash \o m \o Slash \o y : d \in DateParts, m \in DateParts,
                                      y \in DateParts }
    \cup OtherTexts \cup {Date1, Date2, DateBadMonth, Date99, Date00}

\* validate_birth_date applied to a text; the outcome is the reply.
ValidateBirthDate ==
    /\ calls = 0
    /\ reply = NoReply
    /\ calls' = calls + 1
    /\ \E text \in DateTexts :
          reply' = [op |-> "validate_birth_date", id |-> 0, name |-> None,
                    birth_date |-> Some(text), cr |-> None, status |-> None,
                    err |-> validate_birth_date(text), ret |-> None]
    /\ UNCHANGED << students, next_id, unwinding, issued, deleted >>

NameEmpty == << >>
NameTab == << "\t", " " >>
NamePadded == << " ", "A", " " >>
NameMax == Rep("a", MaxNameLen)
WideNames == {NameEmpty, NameBlank, NameTab, NameA, NamePadded, NameMax,
              NameLong}
WideDates == {Date1, Date2, DateBadMonth}
WideCrs == {0 - 1, 0, 50, 100, 101}

\* The first create_student of a fresh contract, over the wider inputs.
CreateOnce ==
    /\ calls = 0
    /\ \E name \in WideNames, birth_date \in WideDates,
          cr \in OptionOf(WideCrs), status \in OptionOf(Status) :
           create_student(name, birth_date, cr, status)

NextInputs ==
    \/ ValidateBirthDate
    \/ CreateOnce

SpecInputs == Init /\ [][NextInputs]_vars

\* ================================================================ claims
ValidationErrors ==
    {"name_empty", "name_long", "date_format", "day_parse", "month_parse",
     "year_parse", "day_range", "month_range", "year_range", "cr_range"}

\* Some requested field of an update fails its check.
AnyInvalid(name, birth_date, cr) ==
    \/ IsSome(name) /\ validate_name(Unwrap(name)) # "ok"
    \/ IsSome(birth_date) /\ validate_birth_date(Unwrap(birth_date)) # "ok"
    \/ IsSome(cr) /\ validate_cr(Unwrap(cr)) # "ok"

CreateOk(r) == r.op = "create" /\ r.err = "none"

\* C1: the ids returned by successful create_student calls are strictly
\* increasing, and next_id never decreases from one state to the next.
C1_IdsStrictlyIncrease ==
    [][ /\ next_id' >= next_id
        /\ \A i, j \in 1..Len(issued') : i < j => issued'[i] < issued'[j]
        /\ CreateOk(reply') =>
              /\ issued' = Append(issued, Unwrap(reply'.ret))
              /\ \A i \in 1..Len(issued) : issued[i] < Unwrap(reply'.ret)
      ]_vars

\* Two creates have succeeded.
C1_Witness == Len(issued) >= 2 /\ CreateOk(reply)

\* C2 (as claimed): a create_student that fails validation leaves both the
\* students mapping and next_id as they were before the call.
C2_FailedCreateNoChange ==
    [][ (reply'.op = "create" /\ reply'.err \in ValidationErrors) =>
            (students' = students /\ next_id' = next_id) ]_vars

\* C3: right after a successful create_student returning id, get_student(id)
\* is a present record with that id and the name, birth_date, cr and status
\* given, and the mapping has grown by exactly that entry.
C3_CreateThenGet ==
    [][ CreateOk(reply') =>
          LET id == Unwrap(reply'.ret) IN
          /\ students'[id] =
                Some([id |-> id, name |-> Unwrap(reply'.name),
                      birth_date |-> Unwrap(reply'.birth_date),
                      cr |-> reply'.cr, status |-> reply'.status])
          /\ students[id] = None
          /\ \A k \in U32 \ {id} : students'[k] = students[k]
      ]_vars

\* A create with a present cr and a present status has succeeded.
C3_Witness ==
    /\ CreateOk(reply)
    /\ IsSome(reply.cr)
    /\ IsSome(reply.status)
    /\ IsSome(get_student(Unwrap(reply.ret)))

\* C4: an id that was deleted is never reassigned: no later create_student
\* returns it and get_student of it stays absent.
C4_DeletedNeverReassigned ==
    [][ /\ \A d \in deleted' : students'[d] = None
        /\ CreateOk(reply') => Unwrap(reply'.ret) \notin deleted
      ]_vars

\* A create has succeeded after a delete.
C4_Witness ==
    /\ CreateOk(reply)
    /\ deleted # {}
    /\ \A d \in deleted : get_student(d) = None

\* C5: an update_student on an existing id with a field that fails its check
\* ends in an error and leaves the stored record unchanged in every field.
C5_FailedUpdateNoChange ==
    [][ ( /\ reply'.op = "update"
          /\ IsSome(students[reply'.id])
          /\ AnyInvalid(reply'.name, reply'.birth_date, reply'.cr) ) =>
            /\ reply'.err \in ValidationErrors
            /\ students' = students
            /\ next_id' = next_id
      ]_vars

\* An update with a valid new name and a cr out of range has failed on a
\* record whose stored name is another one.
C5_Witness ==
    /\ reply.op = "update"
    /\ reply.err = "cr_range"
    /\ IsSome(reply.name)
    /\ validate_name(Unwrap(reply.name)) = "ok"
    /\ IsSome(students[reply.id])
    /\ Unwrap(students[reply.id]).name # Unwrap(reply.name)

PresentIds == {k \in U32 : IsSome(students[k])}

C7_DeleteTwice ==
    [][ reply'.op = "delete" =>
          /\ IsSome(students[reply'.id]) => reply'.ret = Some(TRUE)
          /\ reply'.id \in deleted => reply'.ret = Some(FALSE)
          /\ students'[reply'.id] = None
          /\ next_id' = next_id
          /\ \A k \in U32 \ {reply'.id} : students'[k] = students[k]
      ]_vars

\* A second delete of the same id has returned false.
C7_Witness ==
    /\ reply.op = "delete"
    /\ reply.id \in deleted
    /\ reply.ret = Some(FALSE)

\* C8: with next_id at the maximum of the counter, create_student fails with
\* the overflow error, stores nothing and leaves next_id as it is; in that
\* state get_student, update_student and delete_student still do their work.
C8_OverflowDetected ==
    [][ /\ (reply'.op = "create" /\ next_id = U32_MAX) =>
              /\ reply'.err = "overflow"
              /\ students' = students
              /\ next_id' = next_id
        /\ reply'.err = "overflow" => next_id = U32_MAX
        /\ (next_id = U32_MAX /\ reply'.op = "get") =>
              reply'.ret = Some(students[reply'.id])
        /\ ( /\ next_id = U32_MAX
             /\ reply'.op = "update"
             /\ IsSome(students[reply'.id])
             /\ ~AnyInvalid(reply'.name, reply'.birth_date, reply'.cr) ) =>
              reply'.ret = Some(TRUE)
        /\ ( /\ next_id = U32_MAX
             /\ reply'.op = "delete"
             /\ IsSome(students[reply'.id]) ) =>
              (reply'.ret = Some(TRUE) /\ students'[reply'.id] = None)
      ]_vars

\* A create has failed with the overflow error.
C8_Witness ==
    /\ reply.op = "create"
    /\ reply.err = "overflow"
    /\ next_id = U32_MAX

\* C9: update_student on an id without a record returns false and leaves
\* next_id and every stored record unchanged.
C9_UpdateMissing ==
    [][ (reply'.op = "update" /\ ~IsSome(students[reply'.id])) =>
            /\ reply'.err = "none"
            /\ reply'.ret = Some(FALSE)
            /\ students' = students
            /\ next_id' = next_id
      ]_vars

\* An update of a deleted id has returned false.
C9_Witness ==
    /\ reply.op = "update"
    /\ reply.id \in deleted
    /\ reply.ret = Some(FALSE)

\* C10: a successful update_student on an existing id returns true and
\* changes only the fields whose argument is present; the id field, next_id
\* and the other records stay, and with no argument present nothing changes.
C10_UpdateFrame ==
    [][ ( /\ reply'.op = "update"
          /\ IsSome(students[reply'.id])
          /\ ~AnyInvalid(reply'.name, reply'.birth_date, reply'.cr) ) =>
            LET r == reply'
                old == Unwrap(students[r.id])
                new == Unwrap(students'[r.id])
            IN
            /\ r.err = "none"
            /\ r.ret = Some(TRUE)
            /\ IsSome(students'[r.id])
            /\ new.id = old.id
            /\ ~IsSome(r.name) => new.name = old.name
            /\ ~IsSome(r.birth_date) => new.birth_date = old.birth_date
            /\ ~IsSome(r.cr) => new.cr = old.cr
            /\ ~IsSome(r.status) => new.status = old.status
            /\ next_id' = next_id
            /\ \A k \in U32 \ {r.id} : students'[k] = students[k]
            /\ ( ~IsSome(r.name) /\ ~IsSome(r.birth_date) /\ ~IsSome(r.cr)
                 /\ ~IsSome(r.status) ) => students' = students
      ]_vars

\* An update with only a name has succeeded on a record that keeps a present
\* cr and a present status.
C10_Witness ==
    /\ reply.op = "update"
    /\ reply.ret = Some(TRUE)
    /\ IsSome(reply.name)
    /\ ~IsSome(reply.cr)
    /\ ~IsSome(reply.status)
    /\ IsSome(Unwrap(students[reply.id]).cr)
    /\ IsSome(Unwrap(students[reply.id]).status)

\* A successful update_student of a stored record.
UpdateOk(r) == r.op = "update" /\ r.err = "none" /\ r.ret = Some(TRUE)

\* C11: the status argument of update_student has three cases: absent keeps
\* the stored status, Some(None) makes the stored status absent, and
\* Some(Some(s)) stores s; with a present old status other than s the three
\* stored results differ pairwise.
C11_StatusTriState ==
    [][ UpdateOk(reply') =>
          LET r == reply'
              old == Unwrap(students[r.id]).status
              new == Unwrap(students'[r.id]).status
          IN
          /\ r.status = None => new = old
          /\ r.status = Some(None) => new = None
          /\ \A s \in Status : r.status = Some(Some(s)) => new = Some(s)
          /\ \A s \in Status :
                (IsSome(old) /\ old # Some(s)) =>
                    /\ (r.status = None => (new # None /\ new # Some(s)))
                    /\ (r.status = Some(None) => (new # old /\ new # Some(s)))
                    /\ (r.status = Some(Some(s)) => (new # old /\ new # None))
      ]_vars

\* An update has cleared the status of a record and left its name alone.
C11_Witness ==
    /\ UpdateOk(reply)
    /\ reply.status = Some(None)
    /\ ~IsSome(reply.name)
    /\ Unwrap(students[reply.id]).status = None

\* The shape dd/mm/yyyy: ten characters, two digits, a slash, two digits, a
\* slash, four digits, with the day in 1..31, the month in 1..12 and the year
\* in 1900..2100.
IsDdMmYyyy(t) ==
    /\ Len(t) = 10
    /\ t[3] = "/"
    /\ t[6] = "/"
    /\ \A i \in {1, 2, 4, 5, 7, 8, 9, 10} : t[i] \in Digits
    /\ LET day == 10 * DigitVal(t[1]) + DigitVal(t[2])
           month == 10 * DigitVal(t[4]) + DigitVal(t[5])
           year == 1000 * DigitVal(t[7]) + 100 * DigitVal(t[8])
                   + 10 * DigitVal(t[9]) + DigitVal(t[10])
       IN /\ day >= 1 /\ day <= 31
          /\ month >= 1 /\ month <= 12
          /\ year >= 1900 /\ year <= 2100

\* C12 (as claimed): validate_birth_date accepts a text if and only if it
\* has the shape dd/mm/yyyy with day, month and year in their ranges.
C12_AcceptsExactlyDdMmYyyy ==
    reply.op = "validate_birth_date" =>
        (reply.err = "ok" <=> IsDdMmYyyy(Unwrap(reply.birth_date)))

\* C13 (as claimed): the calls of the crud_works test succeed: a
\* create_student with birth_date "99/99/9999" and an update_student of a
\* stored record with birth_date "00/00/0000", the other arguments valid,
\* are accepted and the birth_date is stored as given.
C13_CrudTestDatesStored ==
    [][ /\ ( /\ reply'.op = "create"
             /\ reply'.birth_date = Some(Date99)
             /\ validate_name(Unwrap(reply'.name)) = "ok"
             /\ (IsSome(reply'.cr) => validate_cr(Unwrap(reply'.cr)) = "ok")
             /\ next_id < U32_MAX ) =>
              /\ CreateOk(reply')
              /\ IsSome(students'[next_id])
              /\ Unwrap(students'[next_id]).birth_date = Date99
        /\ ( /\ reply'.op = "update"
             /\ reply'.birth_date = Some(Date00)
             /\ IsSome(students[reply'.id])
             /\ (IsSome(reply'.name) =>
                    validate_name(Unwrap(reply'.name)) = "ok")
             /\ (IsSome(reply'.cr) => validate_cr(Unwrap(reply'.cr)) = "ok") ) =>
              /\ UpdateOk(reply')
              /\ Unwrap(students'[reply'.id]).birth_date = Date00
      ]_vars

NameErrors == {"name_empty", "name_long"}
DateErrors == {"date_format", "day_parse", "month_parse", "year_parse",
               "day_range", "month_range", "year_range"}

\* The arguments of the create_student call r that fail their check.
BadName(r) == validate_name(Unwrap(r.name)) # "ok"
BadDate(r) == validate_birth_date(Unwrap(r.birth_date)) # "ok"
BadCr(r) == IsSome(r.cr) /\ validate_cr(Unwrap(r.cr)) # "ok"
SeveralBad(r) ==
    \/ BadName(r) /\ BadDate(r)
    \/ BadName(r) /\ BadCr(r)
    \/ BadDate(r) /\ BadCr(r)

\* The error of the first failing check in the order name, birth_date, cr.
FirstInOrder(r) ==
    /\ BadName(r) => r.err \in NameErrors
    /\ (~BadName(r) /\ BadDate(r)) => r.err \in DateErrors
    /\ (~BadName(r) /\ ~BadDate(r) /\ BadCr(r)) => r.err = "cr_range"

\* C14 (as claimed): a create_student with more than one invalid field
\* reports the error of the first failing check in the order name,
\* birth_date, cr.
C14_FirstFailingCheck ==
    [][ (reply'.op = "create" /\ SeveralBad(reply')) => FirstInOrder(reply')
      ]_vars

\* C14 (amended): the same while next_id is below the maximum of the
\* counter; at the maximum the overflow error is reported before any field
\* is checked.
C14_FirstFailingCheckBelowMax ==
    [][ (reply'.op = "create" /\ SeveralBad(reply')) =>
            IF next_id < U32_MAX THEN FirstInOrder(reply')
            ELSE reply'.err = "overflow"
      ]_vars

\* A create with an invalid birth_date and an invalid cr has reported the
\* birth_date.
C14_Witness ==
    /\ reply.op = "create"
    /\ ~BadName(reply)
    /\ BadDate(reply)
    /\ BadCr(reply)
    /\ reply.err \in DateErrors

\* A name that is not empty or whitespace-only and has at most 100
\* characters; a cr that is absent or within 0..100.
NameAccepted(name) ==
    /\ \E i \in 1..Len(name) : name[i] \notin {" ", "\t", "\n"}
    /\ Len(name) <= 100
CrAccepted(cr) == cr = None \/ (Unwrap(cr) >= 0 /\ Unwrap(cr) <= 100)

C16_KeysBelowNextId ==
    \A k \in U32 :
        IsSome(students[k]) =>
            /\ 1 <= k
            /\ k < next_id
            /\ Unwrap(students[k]).id = k

\* Two records are stored and one of them has been updated.
C16_Witness ==
    /\ Cardinality(PresentIds) = 2
    /\ UpdateOk(reply)
    /\ IsSome(reply.name)

\* A record that passes the checks of create_student and update_student.
ValidRecord(s) ==
    /\ validate_name(s.name) = "ok"
    /\ NameAccepted(s.name)
    /\ validate_birth_date(s.birth_date) = "ok"
    /\ CrAccepted(s.cr)

C18_MissingBeforeValidation ==
    [][ ( /\ reply'.op = "update"
          /\ ~IsSome(students[reply'.id])
          /\ AnyInvalid(reply'.name, reply'.birth_date, reply'.cr) ) =>
            /\ reply'.err \notin ValidationErrors
            /\ reply'.ret = Some(FALSE)
      ]_vars

\* An update with a blank name, an invalid birth_date and a cr out of range
\* has returned false on an id that was never issued.
C18_Witness ==
    /\ reply.op = "update"
    /\ reply.ret = Some(FALSE)
    /\ reply.id \notin deleted
    /\ reply.name = Some(NameBlank)
    /\ reply.birth_date = Some(Date00)
    /\ reply.cr = Some(101)

\* C19: update_student cannot clear cr: a record with a present cr keeps a
\* present cr for as long as it is stored, while a successful update with
\* status Some(None) makes its status absent.
C19_CrNeverCleared ==
    [][ /\ \A k \in U32 :
              ( /\ IsSome(students[k])
                /\ IsSome(Unwrap(students[k]).cr)
                /\ IsSome(students'[k]) ) =>
                  IsSome(Unwrap(students'[k]).cr)
        /\ (UpdateOk(reply') /\ reply'.status = Some(None)) =>
              Unwrap(students'[reply'.id]).status = None
      ]_vars

\* An update without cr that cleared the status has succeeded on a record
\* whose cr is still present.
C19_Witness ==
    /\ UpdateOk(reply)
    /\ reply.cr = None
    /\ reply.status = Some(None)
    /\ IsSome(Unwrap(students[reply.id]).cr)
    /\ Unwrap(students[reply.id]).status = None
====
